---- MODULE Spec2Model ----
(***************************************************************************)
(* Model of the Q&A unification core of generador-modular-qa:              *)
(*   src/src/utils/data_models.py          QAItem, QABatch, ExportConfig   *)
(*   src/src/unifiers/data_unifier_simple.py                               *)
(*        QADataUnifier, QAExporter, QADataManager                         *)
(*                                                                         *)
(* Text is a sequence of one-character strings.  A float that the code     *)
(* only adds, halves and compares (confianza, similarity ratios, the       *)
(* threshold) is an exact rational <<numerator, denominator>>.             *)
(***************************************************************************)
EXTENDS Integers, Sequences, FiniteSets, TLC

(***************************************************************************)
(* Text: str.lower(), str.strip(), the "in" substring test.                *)
(***************************************************************************)
UpperCase == <<"A","B","C","D","E","F","G","H","I","J","K","L","M",
               "N","O","P","Q","R","S","T","U","V","W","X","Y","Z">>

LowerCase == <<"a","b","c","d","e","f","g","h","i","j","k","l","m",
               "n","o","p","q","r","s","t","u","v","w","x","y","z">>

LowerChar(c) ==
    IF \E i \in 1..Len(UpperCase) : UpperCase[i] = c
    THEN LowerCase[CHOOSE i \in 1..Len(UpperCase) : UpperCase[i] = c]
    ELSE c

lower(s) == [i \in 1..Len(s) |-> LowerChar(s[i])]

IsSpace(c) == c = " "

strip(s) ==
    IF \A i \in 1..Len(s) : IsSpace(s[i])
    THEN << >>
    ELSE LET first == CHOOSE i \in 1..Len(s) :
                          /\ ~IsSpace(s[i])
                          /\ \A k \in 1..(i-1) : IsSpace(s[k])
             last  == CHOOSE i \in 1..Len(s) :
                          /\ ~IsSpace(s[i])
                          /\ \A k \in (i+1)..Len(s) : IsSpace(s[k])
         IN  SubSeq(s, first, last)

\* Contains as equality of the two texts.
Contains_Equal(haystack, needle) == haystack = needle

\* needle in haystack
Contains(haystack, needle) ==
    \E i \in 1..(Len(haystack) - Len(needle) + 1) :
        SubSeq(haystack, i, i + Len(needle) - 1) = needle

(***************************************************************************)
(* difflib.SequenceMatcher(None, a, b).ratio() as the code calls it: no    *)
(* junk predicate, and every text here is shorter than the 200 elements    *)
(* at which the autojunk heuristic starts, so no element of b is dropped.  *)
(* Windows are half open, alo..ahi-1 and blo..bhi-1, indices from 1.       *)
(***************************************************************************)
RECURSIVE RunLen(_, _, _, _, _, _)
RunLen(a, b, i, j, ahi, bhi) ==
    IF i < ahi /\ j < bhi /\ a[i] = b[j]
    THEN 1 + RunLen(a, b, i + 1, j + 1, ahi, bhi)
    ELSE 0

\* The longest block a[i..i+k-1] = b[j..j+k-1] inside the windows; among the
\* longest the one starting earliest in a, then earliest in b: <<i, j, k>>,
\* and <<alo, blo, 0>> when no element matches.
find_longest_match(a, b, alo, ahi, blo, bhi) ==
    LET run   == [i \in alo..(ahi-1), j \in blo..(bhi-1) |->
                     RunLen(a, b, i, j, ahi, bhi)]
        cells == (alo..(ahi-1)) \X (blo..(bhi-1))
    IN  IF \A c \in cells : run[c] = 0
        THEN <<alo, blo, 0>>
        ELSE LET best  == CHOOSE k \in 1..(ahi - alo) :
                              /\ \E c \in cells : run[c] = k
                              /\ \A c \in cells : run[c] <= k
                 besti == CHOOSE i \in alo..(ahi-1) :
                              /\ \E j \in blo..(bhi-1) : run[i, j] = best
                              /\ \A i2 \in alo..(i-1) :
                                     \A j \in blo..(bhi-1) : run[i2, j] # best
                 bestj == CHOOSE j \in blo..(bhi-1) :
                              /\ run[besti, j] = best
                              /\ \A j2 \in blo..(j-1) : run[besti, j2] # best
             IN  <<besti, bestj, best>>

\* Sum of the sizes of get_matching_blocks(): the longest block m, then the
\* same to its left and to its right.
RECURSIVE MatchingSize(_, _, _, _, _, _)
RECURSIVE BlocksAround(_, _, _, _, _, _, _)
BlocksAround(a, b, alo, ahi, blo, bhi, m) ==
    IF m[3] = 0
    THEN 0
    ELSE m[3]
         + MatchingSize(a, b, alo, m[1], blo, m[2])
         + MatchingSize(a, b, m[1] + m[3], ahi, m[2] + m[3], bhi)

MatchingSize(a, b, alo, ahi, blo, bhi) ==
    BlocksAround(a, b, alo, ahi, blo, bhi,
                 find_longest_match(a, b, alo, ahi, blo, bhi))

\* 2.0 * matches / (len(a) + len(b)), 1.0 for two empty texts.
ratio(a, b) ==
    IF Len(a) + Len(b) = 0
    THEN <<1, 1>>
    ELSE <<2 * MatchingSize(a, b, 1, Len(a) + 1, 1, Len(b) + 1),
           Len(a) + Len(b)>>

(***************************************************************************)
(* Rationals <<n, d>>, d > 0.                                              *)
(***************************************************************************)
RECURSIVE GCD(_, _)
GCD(m, n) == IF n = 0 THEN m ELSE GCD(n, m % n)

Norm(q) == LET g == GCD(q[1], q[2]) IN
           IF g = 0 THEN q ELSE <<q[1] \div g, q[2] \div g>>

Gt(p, q)  == p[1] * q[2] > q[1] * p[2]

Geq(p, q) == p[1] * q[2] >= q[1] * p[2]

\* Mean without the division by 2.
Mean_Sum(p, q) == Norm(<<p[1] * q[2] + q[1] * p[2], p[2] * q[2]>>)

\* (x + y) / 2
Mean(p, q) == Norm(<<p[1] * q[2] + q[1] * p[2], 2 * p[2] * q[2]>>)

(***************************************************************************)
(* QAItem (data_models.py): field constraints, then the validators.        *)
(***************************************************************************)
MinPregunta == 10

MinRespuesta == 20

\* "a'" stands for the accented letter of the first level's name.
Niveles == { <<"b","a'","s","i","c","o">>,
             <<"i","n","t","e","r","m","e","d","i","o">>,
             <<"a","v","a","n","z","a","d","o">> }

Origenes == {"prompt", "documento", "manual", "api"}

clean_text(v) == strip(v)

lowercase_category_theme(v) == strip(lower(v))

\* The declared constraints: min_length, the Literal, ge and le.
QAItemValid(a) ==
    /\ Len(a.pregunta) >= MinPregunta
    /\ Len(a.respuesta) >= MinRespuesta
    /\ a.nivel \in Niveles
    /\ Geq(a.confianza, <<0, 1>>)
    /\ Geq(<<1, 1>>, a.confianza)

\* The object a successful construction yields.
QAItem(a) ==
    [ id             |-> a.id,
      pregunta       |-> clean_text(a.pregunta),
      respuesta      |-> clean_text(a.respuesta),
      categoria      |-> lowercase_category_theme(a.categoria),
      nivel          |-> a.nivel,
      tema           |-> lowercase_category_theme(a.tema),
      fuentes        |-> a.fuentes,
      palabras_clave |-> a.palabras_clave,
      idioma         |-> a.idioma,
      confianza      |-> a.confianza,
      metadatos      |-> a.metadatos,
      fecha_creacion |-> a.fecha_creacion ]

(***************************************************************************)
(* The records and batches the collaborators hand over.                    *)
(***************************************************************************)
Q_WhatIsPython == \* "What is Python?"
    <<"W","h","a","t"," ","i","s"," ","P","y","t","h","o","n","?">>

Q_WhatIsPythonPadded == \* " what is python "
    <<" ","w","h","a","t"," ","i","s"," ","p","y","t","h","o","n"," ">>

Q_HowLoops == \* "How do loops run?"
    <<"H","o","w"," ","d","o"," ","l","o","o","p","s"," ","r","u","n","?">>

A_Lang20 == \* "Python is a language", 20 characters
    <<"P","y","t","h","o","n"," ","i","s"," ","a"," ",
      "l","a","n","g","u","a","g","e">>

A_Lang24 == \* "Python is a language too", 24 characters
    <<"P","y","t","h","o","n"," ","i","s"," ","a"," ",
      "l","a","n","g","u","a","g","e"," ","t","o","o">>

A_Tool25 == \* "Python is a tool for code", 25 characters
    <<"P","y","t","h","o","n"," ","i","s"," ","a"," ",
      "t","o","o","l"," ","f","o","r"," ","c","o","d","e">>

A_Tool26 == \* "Python is a tool for code.", 26 characters
    <<"P","y","t","h","o","n"," ","i","s"," ","a"," ",
      "t","o","o","l"," ","f","o","r"," ","c","o","d","e",".">>

A_Lang26 == \* "Python is a language today", 26 characters
    <<"P","y","t","h","o","n"," ","i","s"," ","a"," ",
      "l","a","n","g","u","a","g","e"," ","t","o","d","a","y">>

A_Lang30 == \* "Python is a language for code.", 30 characters
    <<"P","y","t","h","o","n"," ","i","s"," ","a"," ",
      "l","a","n","g","u","a","g","e"," ","f","o","r"," ","c","o","d","e",".">>

A_Loops == \* "Loops repeat a block of steps", 29 characters
    <<"L","o","o","p","s"," ","r","e","p","e","a","t"," ","a"," ",
      "b","l","o","c","k"," ","o","f"," ","s","t","e","p","s">>

T_Python == <<"P","y","t","h","o","n">>

T_General == <<"g","e","n","e","r","a","l">>

T_Basics == <<" ","B","a","s","i","c","s"," ">>

T_LoopsBasics == <<"l","o","o","p","s"," ","b","a","s","i","c","s">>

N_Intermedio == <<"i","n","t","e","r","m","e","d","i","o">>

N_Avanzado == <<"a","v","a","n","z","a","d","o">>

\* Twelve records that differ in their topic only.
TopicItems ==
    {"p1", "p2", "p3", "p4", "p5", "p6", "p7", "p8", "p9", "p10", "p11", "p12"}

TopicOf ==
    [ p1 |-> <<"t","a">>, p2 |-> <<"t","b">>, p3 |-> <<"t","c">>,
      p4 |-> <<"t","d">>, p5 |-> <<"t","e">>, p6 |-> <<"t","f">>,
      p7 |-> <<"t","g">>, p8 |-> <<"t","h">>, p9 |-> <<"t","i">>,
      p10 |-> <<"t","j">>, p11 |-> <<"t","k">>, p12 |-> <<"t","l">> ]

TopicArgs ==
    [ p \in TopicItems |->
        [ id |-> p, pregunta |-> Q_WhatIsPython, respuesta |-> A_Lang20,
          categoria |-> T_General, nivel |-> N_Intermedio, tema |-> TopicOf[p],
          fuentes |-> << >>, palabras_clave |-> << >>,
          idioma |-> "es", confianza |-> <<1, 2>>,
          metadatos |-> << >>, fecha_creacion |-> 9 ] ]

Items == {"o1", "o2", "o3", "o4", "o5", "o6", "o7", "o8"} \cup TopicItems

\* The constructor arguments of each record.
ItemArgs ==
    [ o1 |-> [ id |-> "o1", pregunta |-> Q_WhatIsPython, respuesta |-> A_Lang20,
               categoria |-> T_Python, nivel |-> N_Intermedio, tema |-> T_Basics,
               fuentes |-> <<"doc_a">>, palabras_clave |-> <<"python">>,
               idioma |-> "es", confianza |-> <<3, 5>>,
               metadatos |-> [provider |-> [type |-> "str", v |-> "openai"]],
               fecha_creacion |-> 1 ],
      o2 |-> [ id |-> "o2", pregunta |-> Q_WhatIsPythonPadded, respuesta |-> A_Lang30,
               categoria |-> lower(T_Python), nivel |-> N_Intermedio, tema |-> << >>,
               fuentes |-> <<"doc_b", "doc_a">>,
               palabras_clave |-> <<"lang", "python">>,
               idioma |-> "es", confianza |-> <<1, 1>>,
               metadatos |-> << >>, fecha_creacion |-> 2 ],
      o3 |-> [ id |-> "o3", pregunta |-> Q_HowLoops, respuesta |-> A_Loops,
               categoria |-> T_General, nivel |-> N_Avanzado, tema |-> T_LoopsBasics,
               fuentes |-> << >>, palabras_clave |-> << >>,
               idioma |-> "en", confianza |-> <<4, 5>>,
               metadatos |-> [chunk |-> [type |-> "int", v |-> 1]],
               fecha_creacion |-> 3 ],
      o4 |-> [ id |-> "o4", pregunta |-> Q_WhatIsPython, respuesta |-> A_Tool25,
               categoria |-> T_Python, nivel |-> N_Avanzado, tema |-> T_Basics,
               fuentes |-> <<"doc_c", "doc_c">>, palabras_clave |-> <<"lang">>,
               idioma |-> "es", confianza |-> <<7, 10>>,
               metadatos |-> << >>, fecha_creacion |-> 4 ],
      o5 |-> [ id |-> "o5", pregunta |-> Q_WhatIsPython, respuesta |-> A_Lang24,
               categoria |-> T_General, nivel |-> N_Intermedio, tema |-> << >>,
               fuentes |-> <<"doc_a">>, palabras_clave |-> <<"python">>,
               idioma |-> "es", confianza |-> <<1, 2>>,
               metadatos |-> << >>, fecha_creacion |-> 5 ],
      o6 |-> [ id |-> "o6", pregunta |-> Q_WhatIsPython, respuesta |-> A_Lang20,
               categoria |-> T_Python, nivel |-> N_Intermedio, tema |-> << >>,
               fuentes |-> <<"doc_a">>, palabras_clave |-> << >>,
               idioma |-> "es", confianza |-> <<19, 20>>,
               metadatos |-> << >>, fecha_creacion |-> 6 ],
      o7 |-> [ id |-> "o7", pregunta |-> Q_WhatIsPython, respuesta |-> A_Lang26,
               categoria |-> T_Python, nivel |-> N_Intermedio, tema |-> << >>,
               fuentes |-> <<"doc_b">>, palabras_clave |-> << >>,
               idioma |-> "es", confianza |-> <<7, 10>>,
               metadatos |-> << >>, fecha_creacion |-> 7 ],
      o8 |-> [ id |-> "o8", pregunta |-> Q_HowLoops, respuesta |-> A_Tool26,
               categoria |-> T_General, nivel |-> N_Avanzado, tema |-> << >>,
               fuentes |-> <<"doc_b">>, palabras_clave |-> <<"lang">>,
               idioma |-> "en", confianza |-> <<1, 2>>,
               metadatos |-> << >>, fecha_creacion |-> 8 ] ]

\* Every record object as its constructor left it.
Constructed ==
    [o \in Items |->
        QAItem(IF o \in TopicItems THEN TopicArgs[o] ELSE ItemArgs[o])]

\* QABatch objects: items holds references to record objects.
BatchPool ==
    [ B1 |-> [id |-> "B1", items |-> <<"o1">>, origen |-> "prompt",
              parametros_generacion |-> << >>],
      B2 |-> [id |-> "B2", items |-> <<"o2", "o3">>, origen |-> "documento",
              parametros_generacion |-> << >>],
      B3 |-> [id |-> "B3", items |-> <<"o5", "o4">>, origen |-> "api",
              parametros_generacion |-> << >>],
      A  |-> [id |-> "A", items |-> <<"o6">>, origen |-> "prompt",
              parametros_generacion |-> << >>],
      B  |-> [id |-> "B", items |-> <<"o7">>, origen |-> "documento",
              parametros_generacion |-> << >>],
      T1 |-> [id |-> "T1", items |-> <<"p1", "p2", "p3", "p4", "p5", "p6">>,
              origen |-> "prompt", parametros_generacion |-> << >>],
      T2 |-> [id |-> "T2",
              items |-> <<"p7", "p8", "p9", "p10", "p11", "p12">>,
              origen |-> "documento", parametros_generacion |-> << >>],
      T3 |-> [id |-> "T3", items |-> <<"p12", "p3">>, origen |-> "api",
              parametros_generacion |-> << >>],
      T4 |-> [id |-> "T4", items |-> <<"p1", "p7", "o3">>, origen |-> "api",
              parametros_generacion |-> << >>] ]

BatchIds == {"B1", "B2", "B3"}

\* The two single-record batches of a near-duplicate pair.
ScenarioBatchIds == {"A", "B"}

(***************************************************************************)
(* list(set(xs)): the elements of xs once each, in the iteration order of  *)
(* the set, which follows the interpreter's string hashing; order is one   *)
(* of the HashOrders for the life of the process.                          *)
(***************************************************************************)
Atoms == <<"doc_a", "doc_b", "doc_c", "python", "lang">>

Reverse(s) == [i \in 1..Len(s) |-> s[Len(s) + 1 - i]]

HashOrders == {Atoms, Reverse(Atoms)}

Range(s) == {s[i] : i \in 1..Len(s)}

ListSet(xs, order) == SelectSeq(order, LAMBDA x : x \in Range(xs))

NoDuplicates(xs) == \A i, j \in 1..Len(xs) : xs[i] = xs[j] => i = j

(***************************************************************************)
(* State.                                                                  *)
(***************************************************************************)
VARIABLES
    heap,           \* record object -> its current field values
    batches,        \* QADataUnifier.batches
    unified_items,  \* QADataUnifier.unified_items: references into heap
    hash_order,     \* the set iteration order of this process
    files,          \* path -> content written by the exporter
    op,             \* the last operation called and its arguments
    ret,            \* what it returned or raised
    merge_log,      \* one entry per fusion of the last merge_similar_items
    ingested        \* per add_batch: the batch and its records' values then

vars == <<heap, batches, unified_items, hash_order, files, op, ret,
          merge_log, ingested>>

MaxBatches == 3

Thresholds == {<<1, 2>>, <<4, 5>>, <<1, 1>>}

ValuesOf(h, refs) == [i \in 1..Len(refs) |-> h[refs[i]]]

Init ==
    /\ heap = Constructed
    /\ batches = << >>
    /\ unified_items = << >>
    /\ hash_order \in HashOrders
    /\ files = << >>
    /\ op = [name |-> "init"]
    /\ ret = [kind |-> "none"]
    /\ merge_log = << >>
    /\ ingested = << >>

(***************************************************************************)
(* QADataUnifier.add_batch, add_batches; QADataManager.add_data            *)
(***************************************************************************)
\* add_batch putting the records of the batch in front of the collection.
add_batch_InFront(u, batch) == <<Append(u[1], batch), batch.items \o u[2]>>

\* The unifier after add_batch(batch): <<batches, unified_items>>.
add_batch(u, batch) == <<Append(u[1], batch), u[2] \o batch.items>>

RECURSIVE add_batches(_, _)
add_batches(u, bs) ==
    IF bs = << >> THEN u
    ELSE add_batches(add_batch(u, Head(bs)), Tail(bs))

\* What add_data can be called with; an element carries its runtime type.
ListInputs ==
    { << >>,
      << [type |-> "QABatch", ref |-> "B1"], [type |-> "QABatch", ref |-> "B2"] >>,
      << [type |-> "QABatch", ref |-> "B3"], [type |-> "QABatch", ref |-> "B1"] >>,
      << [type |-> "QAItem", ref |-> "o3"], [type |-> "QAItem", ref |-> "o1"] >>,
      << [type |-> "QABatch", ref |-> "B1"], [type |-> "QAItem", ref |-> "o3"] >> }

DataInputs ==
    {[type |-> "QABatch", ref |-> b] : b \in BatchIds}
    \cup {[type |-> "list", elems |-> l] : l \in ListInputs}
    \cup {[type |-> "str"]}

Refs(l) == [i \in 1..Len(l) |-> l[i].ref]

\* The outcome of add_data(data): the unifier after it and whether it raised.
add_data(u, data) ==
    IF data.type = "QABatch"
    THEN [u |-> add_batch(u, BatchPool[data.ref]), raised |-> FALSE]
    ELSE IF data.type = "list"
    THEN IF \A i \in 1..Len(data.elems) : data.elems[i].type = "QABatch"
         THEN [u |-> add_batches(u, [i \in 1..Len(data.elems) |->
                                        BatchPool[data.elems[i].ref]]),
               raised |-> FALSE]
         ELSE IF \A i \in 1..Len(data.elems) : data.elems[i].type = "QAItem"
         THEN [u |-> add_batch(u, [ id |-> <<"tmp", Len(u[1])>>,
                                    items |-> Refs(data.elems),
                                    origen |-> "manual",
                                    parametros_generacion |->
                                        [added_manually |-> TRUE] ]),
               raised |-> FALSE]
         ELSE [u |-> u, raised |-> FALSE]
    ELSE [u |-> u, raised |-> TRUE]

\* The state after add_data with outcome r.
Added(r) ==
    /\ Len(r.u[1]) <= MaxBatches
    /\ batches' = r.u[1]
    /\ unified_items' = r.u[2]
    /\ ingested' = ingested \o
          [i \in 1..(Len(r.u[1]) - Len(batches)) |->
              [batch |-> r.u[1][Len(batches) + i],
               values |-> ValuesOf(heap, r.u[1][Len(batches) + i].items)]]
    /\ ret' = IF r.raised THEN [kind |-> "raise", error |-> "ValueError"]
              ELSE [kind |-> "none"]

AddData(data) ==
    /\ Added(add_data(<<batches, unified_items>>, data))
    /\ op' = [name |-> "add_data", data |-> data]
    /\ merge_log' = << >>
    /\ UNCHANGED <<heap, hash_order, files>>

(***************************************************************************)
(* QADataUnifier.merge_similar_items                                       *)
(***************************************************************************)
\* SequenceMatcher(None, x.lower().strip(), y.lower().strip()).ratio()
Similarity(x, y) == ratio(strip(lower(x)), strip(lower(y)))

\* The texts the records hold: a merge copies answers between records and
\* writes no new text.
Texts == {Constructed[o].pregunta : o \in Items}
         \cup {Constructed[o].respuesta : o \in Items}

\* Similarity, evaluated once per pair of texts.
SimTable == [x \in Texts, y \in Texts |-> Similarity(x, y)]

\* IsDuplicate with >= where the code has >.
IsDuplicate_Geq(h, item, existing_item, similarity_threshold) ==
    \/ Geq(SimTable[h[item].pregunta, h[existing_item].pregunta],
           similarity_threshold)
    \/ Geq(SimTable[h[item].respuesta, h[existing_item].respuesta],
           similarity_threshold)

\* line 64
IsDuplicate(h, item, existing_item, similarity_threshold) ==
    \/ Gt(SimTable[h[item].pregunta, h[existing_item].pregunta],
          similarity_threshold)
    \/ Gt(SimTable[h[item].respuesta, h[existing_item].respuesta],
          similarity_threshold)

\* LongerAnswer without the factor 1.2.
LongerAnswer_NoFactor(incoming, existing) == Len(incoming) > Len(existing)

\* len(item.respuesta) > len(existing_item.respuesta) * 1.2.  The double
\* product equals the exact one whenever that is an integer, so the
\* comparison of integers 5 * len > 6 * len decides the same.
LongerAnswer(incoming, existing) == 5 * Len(incoming) > 6 * Len(existing)

\* MergeFuentes without the list(set(...)) of line 67.
MergeFuentes_NoSet(h, existing_item, item, order) ==
    [h EXCEPT ![existing_item].fuentes =
        h[existing_item].fuentes \o h[item].fuentes]

\* lines 66-67: extend with the incoming sources, then list(set(...))
MergeFuentes(h, existing_item, item, order) ==
    [h EXCEPT ![existing_item].fuentes =
        ListSet(h[existing_item].fuentes \o h[item].fuentes, order)]

\* lines 70-71
MergePalabrasClave(h, existing_item, item, order) ==
    [h EXCEPT ![existing_item].palabras_clave =
        ListSet(h[existing_item].palabras_clave \o h[item].palabras_clave,
                order)]

\* PreferLonger taking the question along with the answer.
PreferLonger_WithQuestion(h, existing_item, item) ==
    IF LongerAnswer(h[item].respuesta, h[existing_item].respuesta)
    THEN [h EXCEPT ![existing_item].respuesta = h[item].respuesta,
                   ![existing_item].pregunta = h[item].pregunta]
    ELSE h

\* lines 74-75
PreferLonger(h, existing_item, item) ==
    IF LongerAnswer(h[item].respuesta, h[existing_item].respuesta)
    THEN [h EXCEPT ![existing_item].respuesta = h[item].respuesta]
    ELSE h

\* AverageConfianza weighting the incoming record twice.
AverageConfianza_Skewed(h, existing_item, item) ==
    [h EXCEPT ![existing_item].confianza =
        Mean(Mean(h[existing_item].confianza, h[item].confianza),
             h[item].confianza)]

\* line 78
AverageConfianza(h, existing_item, item) ==
    [h EXCEPT ![existing_item].confianza =
        Mean(h[existing_item].confianza, h[item].confianza)]

\* Fuse leaving the existing record as it is.
Fuse_Nothing(h, existing_item, item, order) == h

\* lines 66-78 on the heap: item is fused into existing_item.  Each statement
\* reads the objects as the previous statement left them.
Fuse(h, existing_item, item, order) ==
    AverageConfianza(
        PreferLonger(
            MergePalabrasClave(
                MergeFuentes(h, existing_item, item, order),
                existing_item, item, order),
            existing_item, item),
        existing_item, item)

\* FirstOf taking the greatest position.
FirstOf_Last(S) == IF S = {} THEN 0 ELSE CHOOSE k \in S : \A k2 \in S : k >= k2

\* The least element of a set of positions, 0 for the empty set.
FirstOf(S) == IF S = {} THEN 0 ELSE CHOOSE k \in S : \A k2 \in S : k <= k2

\* The position in merged_items of the first record item duplicates, or 0.
FirstDuplicate(h, merged_items, item, t) ==
    FirstOf({k \in 1..Len(merged_items) :
                IsDuplicate(h, item, merged_items[k], t)})

\* The merge state after item fused into the record at position hit: h is
\* the heap after the fusion.
Fused(st, item, k, hit, h) ==
    [st EXCEPT
       !.heap = h,
       !.merged_count = @ + 1,
       !.log = Append(@,
           [ existing |-> st.merged_items[hit],
             incoming |-> item,
             position |-> k,
             before   |-> st.heap[st.merged_items[hit]],
             item     |-> st.heap[item],
             after    |-> h[st.merged_items[hit]] ])]

\* MergeAt without the "if not is_duplicate" of line 85.
MergeAt_KeepsDuplicate(st, item, k, order, hit) ==
    IF hit = 0
    THEN [st EXCEPT !.merged_items = Append(@, item)]
    ELSE [Fused(st, item, k, hit,
                Fuse(st.heap, st.merged_items[hit], item, order))
            EXCEPT !.merged_items = Append(@, item)]

\* lines 63-86 once the scan of merged_items stopped at hit (0: no match).
MergeAt(st, item, k, order, hit) ==
    IF hit = 0
    THEN [st EXCEPT !.merged_items = Append(@, item)]
    ELSE Fused(st, item, k, hit,
               Fuse(st.heap, st.merged_items[hit], item, order))

\* One iteration of the loop of lines 46-86, for the k-th item.
MergeOne(st, item, k, t, order) ==
    MergeAt(st, item, k, order,
            FirstDuplicate(st.heap, st.merged_items, item, t))

RECURSIVE MergeLoop(_, _, _, _, _)
MergeLoop(items, k, t, order, st) ==
    IF k > Len(items) THEN st
    ELSE MergeLoop(items, k + 1, t, order,
                   MergeOne(st, items[k], k, t, order))

merge_similar_items(h, items, similarity_threshold, order) ==
    MergeLoop(items, 1, similarity_threshold, order,
              [heap |-> h, merged_items |-> << >>, merged_count |-> 0,
               log |-> << >>])

\* The state after a merge with outcome m.
Merged(m) ==
    /\ heap' = m.heap
    /\ unified_items' = m.merged_items
    /\ merge_log' = m.log
    /\ ret' = [kind |-> "return", value |-> m.merged_count]

MergeSimilarItems(t) ==
    /\ Merged(merge_similar_items(heap, unified_items, t, hash_order))
    /\ op' = [name |-> "merge_similar_items", threshold |-> t,
              before |-> unified_items,
              before_values |-> ValuesOf(heap, unified_items)]
    /\ UNCHANGED <<batches, hash_order, files, ingested>>

(***************************************************************************)
(* QADataUnifier.filter_items                                              *)
(***************************************************************************)
T_Avanzado == <<"A","V","A","N","Z","A","D","O">>

T_Basic == <<"B","a","s","i","c">>

T_Loops == <<"l","o","o","p","s">>

\* The filter mappings callers pass: key -> value, any key may be absent.
FilterPool ==
    { << >>,
      [categoria |-> T_Python],
      [categoria |-> << >>, nivel |-> T_Avanzado],
      [tema |-> T_Basic],
      [confianza_minima |-> <<4, 5>>],
      [confianza_minima |-> <<0, 1>>, tema |-> << >>],
      [categoria |-> T_Python, confianza_minima |-> <<7, 10>>],
      [categoria |-> T_General, nivel |-> T_Avanzado, tema |-> T_Loops,
       confianza_minima |-> <<1, 2>>],
      [palabras_clave |-> <<T_Loops>>],
      [categoria |-> T_Python, palabras_clave |-> <<T_Loops, T_Basic>>] }

\* 'key' in filters and filters['key']: a text or list is true when not
\* empty, a number when not zero.
Active(filters, key) ==
    /\ key \in DOMAIN filters
    /\ IF key = "confianza_minima"
       THEN filters[key][1] # 0
       ELSE filters[key] # << >>

\* ListCopy starting from an empty list.
ListCopy_Empty(items) == << >>

\* self.unified_items.copy()
ListCopy(items) == items

\* lines 98-100
ByCategoria(h, items, filters) ==
    IF Active(filters, "categoria")
    THEN SelectSeq(items, LAMBDA item :
             lower(h[item].categoria) = lower(filters.categoria))
    ELSE items

\* lines 103-105
ByNivel(h, items, filters) ==
    IF Active(filters, "nivel")
    THEN SelectSeq(items, LAMBDA item :
             lower(h[item].nivel) = lower(filters.nivel))
    ELSE items

\* lines 108-110
ByTema(h, items, filters) ==
    IF Active(filters, "tema")
    THEN SelectSeq(items, LAMBDA item :
             Contains(lower(h[item].tema), lower(filters.tema)))
    ELSE items

\* lines 113-115
ByConfianza(h, items, filters) ==
    IF Active(filters, "confianza_minima")
    THEN SelectSeq(items, LAMBDA item :
             Geq(h[item].confianza, filters.confianza_minima))
    ELSE items

\* lines 95-118: a copy of the list, narrowed by each active key in turn.
filter_items(h, items, filters) ==
    ByConfianza(h,
        ByTema(h,
            ByNivel(h,
                ByCategoria(h, ListCopy(items), filters),
                filters),
            filters),
        filters)

FilterItems(filters) ==
    /\ op' = [name |-> "filter_items", filters |-> filters]
    /\ ret' = [kind |-> "return",
               value |-> filter_items(heap, unified_items, filters)]
    /\ merge_log' = << >>
    /\ UNCHANGED <<heap, batches, unified_items, hash_order, files, ingested>>

(***************************************************************************)
(* QADataUnifier.get_statistics.  A dict is the sequence of its            *)
(* <<key, value>> pairs in insertion order.                                *)
(***************************************************************************)
TopTemas == 10

Min(a, b) == IF a < b THEN a ELSE b

HasKey(d, k) == \E i \in 1..Len(d) : d[i][1] = k

\* Add storing n over the count the key already has.
Add_Overwrite(d, k, n) ==
    IF HasKey(d, k)
    THEN [i \in 1..Len(d) |-> IF d[i][1] = k THEN <<k, n>> ELSE d[i]]
    ELSE Append(d, <<k, n>>)

\* d[k] = d.get(k, 0) + n
Add(d, k, n) ==
    IF HasKey(d, k)
    THEN [i \in 1..Len(d) |-> IF d[i][1] = k THEN <<k, d[i][2] + n>> ELSE d[i]]
    ELSE Append(d, <<k, n>>)

\* the dict after adding every <<key, n>> of pairs in order
RECURSIVE Tally(_, _)
Tally(pairs, d) ==
    IF pairs = << >> THEN d
    ELSE Tally(Tail(pairs), Add(d, Head(pairs)[1], Head(pairs)[2]))

\* SortedByCountDesc with equal counts in the reverse of their original order.
SortedByCountDesc_TiesReversed(d) ==
    LET rank(i) == 1 + Cardinality({j \in 1..Len(d) :
                        \/ d[j][2] > d[i][2]
                        \/ d[j][2] = d[i][2] /\ j > i})
    IN  [r \in 1..Len(d) |-> d[CHOOSE i \in 1..Len(d) : rank(i) = r]]

\* sorted(d.items(), key=lambda x: x[1], reverse=True): by count, largest
\* first, equal counts in their original order.
SortedByCountDesc(d) ==
    LET rank(i) == 1 + Cardinality({j \in 1..Len(d) :
                        \/ d[j][2] > d[i][2]
                        \/ d[j][2] = d[i][2] /\ j < i})
    IN  [r \in 1..Len(d) |-> d[CHOOSE i \in 1..Len(d) : rank(i) = r]]

RECURSIVE SumQ(_)
SumQ(qs) ==
    IF qs = << >> THEN <<0, 1>>
    ELSE LET r == SumQ(Tail(qs))
             q == Head(qs)
         IN  Norm(<<q[1] * r[2] + r[1] * q[2], q[2] * r[2]>>)

get_statistics(h, bs, items) ==
    IF items = << >>
    THEN [total |-> 0]
    ELSE LET ones(field) == [i \in 1..Len(items) |-> <<h[items[i]][field], 1>>]
             con_tema == SelectSeq(items, LAMBDA item : h[item].tema # << >>)
             temas == Tally([i \in 1..Len(con_tema) |->
                                <<h[con_tema[i]].tema, 1>>], << >>)
             suma == SumQ([i \in 1..Len(items) |-> h[items[i]].confianza])
         IN  [ total_items |-> Len(items),
               total_batches |-> Len(bs),
               distribucion_categorias |-> Tally(ones("categoria"), << >>),
               distribucion_niveles |-> Tally(ones("nivel"), << >>),
               distribucion_temas |->
                   SubSeq(SortedByCountDesc(temas), 1,
                          Min(TopTemas, Len(temas))),
               distribucion_idiomas |-> Tally(ones("idioma"), << >>),
               distribucion_origenes |->
                   Tally([i \in 1..Len(bs) |->
                             <<bs[i].origen, Len(bs[i].items)>>], << >>),
               confianza_promedio |->
                   Norm(<<suma[1], suma[2] * Len(items)>>) ]

\* QADataManager.get_summary
GetSummary ==
    /\ op' = [name |-> "get_summary"]
    /\ ret' = [kind |-> "return",
               value |-> get_statistics(heap, batches, unified_items)]
    /\ merge_log' = << >>
    /\ UNCHANGED <<heap, batches, unified_items, hash_order, files, ingested>>

\* The <<value of field, 1>> pair of every record of items, in order.
Ones(h, items, field) == [i \in 1..Len(items) |-> <<h[items[i]][field], 1>>]

\* sum(item.confianza for item in items) / len(items)
Promedio(suma, n) == Norm(<<suma[1], suma[2] * n>>)

\* QABatch.get_stats of a batch holding the records items.
get_stats(h, items) ==
    IF items = << >>
    THEN [total |-> 0]
    ELSE [ total |-> Len(items),
           categorias |-> Tally(Ones(h, items, "categoria"), << >>),
           niveles |-> Tally(Ones(h, items, "nivel"), << >>),
           temas |-> Tally(Ones(h, SelectSeq(items,
                                   LAMBDA item : h[item].tema # << >>),
                                "tema"), << >>),
           confianza_promedio |->
               Promedio(SumQ([i \in 1..Len(items) |-> h[items[i]].confianza]),
                        Len(items)) ]

\* batch.get_stats() on the i-th batch handed to the manager.
GetStats(i) ==
    /\ op' = [name |-> "get_stats", batch |-> i]
    /\ ret' = [kind |-> "return", value |-> get_stats(heap, batches[i].items)]
    /\ merge_log' = << >>
    /\ UNCHANGED <<heap, batches, unified_items, hash_order, files, ingested>>

(***************************************************************************)
(* QAExporter and QADataManager.process_and_export.  A path is the         *)
(* sequence of its parts; a file name ends with its extension part.        *)
(***************************************************************************)
supported_formats == <<"csv", "json", "xlsx", "yaml">>

OUTPUT_DIR == <<"data", "output">>

\* "|".join(xs)
RECURSIVE Join(_)
Join(xs) ==
    IF xs = << >> THEN << >>
    ELSE IF Len(xs) = 1 THEN <<xs[1]>>
    ELSE <<xs[1], "|">> \o Join(Tail(xs))

\* str(value) of a metadata value
Str(value) == IF value.type = "int" THEN ToString(value.v) ELSE value.v

\* ExportRow adding the metadata columns whatever include_metadata says.
ExportRow_AlwaysMeta(r, include_metadata) ==
    [key \in {"meta_" \o k : k \in DOMAIN r.metadatos} |->
        LET k == CHOOSE k \in DOMAIN r.metadatos : "meta_" \o k = key
        IN  Str(r.metadatos[k])]
    @@ [ id |-> r.id, pregunta |-> r.pregunta, respuesta |-> r.respuesta,
         categoria |-> r.categoria, nivel |-> r.nivel, tema |-> r.tema,
         idioma |-> r.idioma, confianza |-> r.confianza,
         fecha_creacion |-> <<"iso", r.fecha_creacion>>,
         fuentes |-> Join(r.fuentes),
         palabras_clave |-> Join(r.palabras_clave) ]

\* One row of prepare_export_data: column name -> value.
ExportRow(r, include_metadata) ==
    LET row == [ id |-> r.id, pregunta |-> r.pregunta,
                 respuesta |-> r.respuesta, categoria |-> r.categoria,
                 nivel |-> r.nivel, tema |-> r.tema, idioma |-> r.idioma,
                 confianza |-> r.confianza,
                 fecha_creacion |-> <<"iso", r.fecha_creacion>>,
                 fuentes |-> IF r.fuentes # << >> THEN Join(r.fuentes)
                             ELSE << >>,
                 palabras_clave |-> IF r.palabras_clave # << >>
                                    THEN Join(r.palabras_clave) ELSE << >> ]
    IN  IF include_metadata /\ r.metadatos # << >>
        THEN [key \in {"meta_" \o k : k \in DOMAIN r.metadatos} |->
                 LET k == CHOOSE k \in DOMAIN r.metadatos : "meta_" \o k = key
                 IN  Str(r.metadatos[k])] @@ row
        ELSE row

prepare_export_data(h, items, include_metadata) ==
    [i \in 1..Len(items) |-> ExportRow(h[items[i]], include_metadata)]

\* The characters of each column name.
Spell ==
    [ id |-> <<"i","d">>,
      pregunta |-> <<"p","r","e","g","u","n","t","a">>,
      respuesta |-> <<"r","e","s","p","u","e","s","t","a">>,
      categoria |-> <<"c","a","t","e","g","o","r","i","a">>,
      nivel |-> <<"n","i","v","e","l">>,
      tema |-> <<"t","e","m","a">>,
      idioma |-> <<"i","d","i","o","m","a">>,
      confianza |-> <<"c","o","n","f","i","a","n","z","a">>,
      fecha_creacion |->
          <<"f","e","c","h","a","_","c","r","e","a","c","i","o","n">>,
      fuentes |-> <<"f","u","e","n","t","e","s">>,
      palabras_clave |->
          <<"p","a","l","a","b","r","a","s","_","c","l","a","v","e">>,
      meta_provider |->
          <<"m","e","t","a","_","p","r","o","v","i","d","e","r">>,
      meta_chunk |-> <<"m","e","t","a","_","c","h","u","n","k">> ]

\* ord(c) of the characters of column names: "_" and the lowercase letters.
CodePoint(c) ==
    IF c = "_" THEN 95
    ELSE 96 + CHOOSE i \in 1..Len(LowerCase) : LowerCase[i] = c

\* a < b for two strings, given by their characters.
StrLess(a, b) ==
    \/ Len(a) < Len(b) /\ SubSeq(b, 1, Len(a)) = a
    \/ \E k \in 1..Min(Len(a), Len(b)) :
          /\ SubSeq(a, 1, k - 1) = SubSeq(b, 1, k - 1)
          /\ CodePoint(a[k]) < CodePoint(b[k])

\* StrLess on column names, evaluated once per pair of names.
NameLess == [x \in DOMAIN Spell, y \in DOMAIN Spell |->
                StrLess(Spell[x], Spell[y])]

\* sorted with reverse=True.
sorted_Reverse(names) ==
    [r \in 1..Cardinality(names) |->
        CHOOSE x \in names :
            Cardinality({y \in names : NameLess[x, y]}) = r - 1]

\* sorted(names) of a set of column names
sorted(names) ==
    [r \in 1..Cardinality(names) |->
        CHOOSE x \in names :
            Cardinality({y \in names : NameLess[y, x]}) = r - 1]

\* lines 210-212
AllColumns(data) == UNION {DOMAIN data[i] : i \in 1..Len(data)}

\* csv.DictWriter._dict_to_list with the default restval "": the values of
\* rowdict under fieldnames, the empty string for a missing key.
dict_to_list(rowdict, fieldnames) ==
    [c \in 1..Len(fieldnames) |->
        IF fieldnames[c] \in DOMAIN rowdict THEN rowdict[fieldnames[c]]
        ELSE ""]

\* lines 216-219: the file holds the header line, then one line per row;
\* rows keeps the dicts handed to writerows.
CsvFile(data, columns) ==
    [ format |-> "csv",
      columns |-> columns,
      rows |-> data,
      lines |-> <<columns>> \o
                [i \in 1..Len(data) |-> dict_to_list(data[i], columns)] ]

\* export_to_csv without the early return of lines 205-207.
export_to_csv_NoEarlyReturn(h, items, include_metadata) ==
    [written |-> TRUE,
     content |-> CsvFile(prepare_export_data(h, items, include_metadata),
                         sorted(AllColumns(
                             prepare_export_data(h, items,
                                                 include_metadata))))]

\* The file export_to_csv writes, or "none" when it returns before open().
export_to_csv(h, items, include_metadata) ==
    LET data == prepare_export_data(h, items, include_metadata)
    IN  IF data = << >>
        THEN [written |-> FALSE]
        ELSE [written |-> TRUE,
              content |-> CsvFile(data, sorted(AllColumns(data)))]

export_to_json(h, items, include_metadata, now) ==
    LET data == prepare_export_data(h, items, include_metadata)
    IN  [written |-> TRUE,
         content |-> [ format |-> "json",
                       metadata |-> [ total_items |-> Len(data),
                                      export_date |-> <<"iso", now>>,
                                      format_version |-> "1.0" ],
                       qa_items |-> data ]]

\* lines 244-260
ExportPath(config, now) ==
    LET output_path == IF config.ruta_salida # << >> THEN config.ruta_salida
                       ELSE OUTPUT_DIR
        ext == "." \o config.formato
        filename == IF config.nombre_archivo # << >>
                    THEN config.nombre_archivo
                    ELSE <<"qa_export_", now, ext>>
        fixed == IF filename[Len(filename)] # ext
                 THEN Append(filename, ext) ELSE filename
    IN  output_path \o fixed

\* Exported returning the path of a supported format without any write.
Exported_NoWrite(fs, config, full_path, out, io_ok) ==
    IF ~io_ok
    THEN [files |-> fs, raised |-> "OSError"]
    ELSE IF config.formato \notin {"csv", "json"}
    THEN [files |-> fs, raised |-> "ValueError"]
    ELSE [files |-> fs, raised |-> "no", path |-> full_path]

\* lines 263-271 for the path and, for csv and json, the outcome out of the
\* writer: the files afterwards and the path returned, or the error raised.
\* io_ok: the file system lets the path be created and written.
Exported(fs, config, full_path, out, io_ok) ==
    IF ~io_ok
    THEN [files |-> fs, raised |-> "OSError"]
    ELSE IF config.formato \notin {"csv", "json"}
    THEN [files |-> fs, raised |-> "ValueError"]
    ELSE IF ~out.written
    THEN [files |-> fs, raised |-> "no", path |-> full_path]
    ELSE [files |-> (full_path :> out.content) @@ fs,
          raised |-> "no", path |-> full_path]

\* QAExporter.export
export(fs, h, items, config, now, io_ok) ==
    Exported(fs, config, ExportPath(config, now),
             IF config.formato = "csv"
             THEN export_to_csv(h, items, config.incluir_metadatos)
             ELSE export_to_json(h, items, config.incluir_metadatos, now),
             io_ok)

T_Ninguna == <<"n","i","n","g","u","n","a">>

\* ExportConfig objects; << >> stands for an absent (None) path or name.
ExportConfigs ==
    { [ formato |-> "csv", incluir_metadatos |-> TRUE, filtros |-> << >>,
        ruta_salida |-> << >>, nombre_archivo |-> <<"out">> ],
      [ formato |-> "json", incluir_metadatos |-> FALSE,
        filtros |-> [categoria |-> T_Python],
        ruta_salida |-> <<"exports">>, nombre_archivo |-> <<"out", ".json">> ],
      [ formato |-> "csv", incluir_metadatos |-> TRUE,
        filtros |-> [categoria |-> T_Ninguna],
        ruta_salida |-> << >>, nombre_archivo |-> << >> ],
      [ formato |-> "json", incluir_metadatos |-> TRUE,
        filtros |-> [categoria |-> T_Ninguna],
        ruta_salida |-> << >>, nombre_archivo |-> <<"out">> ],
      [ formato |-> "xlsx", incluir_metadatos |-> TRUE, filtros |-> << >>,
        ruta_salida |-> << >>, nombre_archivo |-> <<"out">> ] }

Now == 20240101

MaxFiles == 1

\* The state after the export with outcome e.
ExportDone(e) ==
    /\ Cardinality(DOMAIN e.files) <= MaxFiles
    /\ files' = e.files
    /\ ret' = IF e.raised = "no"
              THEN [kind |-> "return", value |-> e.path]
              ELSE [kind |-> "raise", error |-> e.raised]

\* lines 311-317 on the records that passed the filter.
ExportFiltered(m, call, io_ok, items_to_export) ==
    /\ ExportDone(export(files, m.heap, items_to_export, call.config, Now,
                         io_ok))
    /\ op' = [name |-> "process_and_export", config |-> call.config,
              remove_duplicates |-> call.remove_duplicates,
              threshold |-> call.threshold,
              before |-> unified_items,
              before_values |-> ValuesOf(heap, unified_items),
              exported |-> items_to_export]

\* FilterAndExport filtering the collection as it was before the merge.
FilterAndExport_FilterFirst(m, call, io_ok) ==
    /\ heap' = m.heap
    /\ unified_items' = m.merged_items
    /\ merge_log' = m.log
    /\ ExportFiltered(m, call, io_ok,
           filter_items(heap, unified_items, call.config.filtros))

\* lines 310-317 after the optional merge with outcome m.
FilterAndExport(m, call, io_ok) ==
    /\ heap' = m.heap
    /\ unified_items' = m.merged_items
    /\ merge_log' = m.log
    /\ ExportFiltered(m, call, io_ok,
           filter_items(m.heap, m.merged_items, call.config.filtros))

\* ProcessAndExport running the merge whatever remove_duplicates says.
ProcessAndExport_MergeAlways(export_config, remove_duplicates, similarity_threshold, io_ok) ==
    /\ FilterAndExport(
           merge_similar_items(heap, unified_items, similarity_threshold,
                               hash_order),
           [config |-> export_config, remove_duplicates |-> remove_duplicates,
            threshold |-> similarity_threshold],
           io_ok)
    /\ UNCHANGED <<batches, hash_order, ingested>>

ProcessAndExport(export_config, remove_duplicates, similarity_threshold, io_ok) ==
    /\ FilterAndExport(
           IF remove_duplicates
           THEN merge_similar_items(heap, unified_items,
                                    similarity_threshold, hash_order)
           ELSE [heap |-> heap, merged_items |-> unified_items,
                 merged_count |-> 0, log |-> << >>],
           [config |-> export_config, remove_duplicates |-> remove_duplicates,
            threshold |-> similarity_threshold],
           io_ok)
    /\ UNCHANGED <<batches, hash_order, ingested>>

Next ==
    \/ \E data \in DataInputs : AddData(data)
    \/ \E t \in Thresholds : MergeSimilarItems(t)
    \/ \E filters \in FilterPool : FilterItems(filters)
    \/ GetSummary
    \/ \E i \in 1..Len(batches) : GetStats(i)

Spec == Init /\ [][Next]_vars

(***************************************************************************)
(* The manager with its exporter: every operation, on fewer inputs.        *)
(***************************************************************************)
MaxExportBatches == 2

DefaultThreshold == <<4, 5>>

ExportFilters == { << >>, [categoria |-> T_Python, confianza_minima |-> <<7, 10>>] }

NextExport ==
    \/ \E b \in BatchIds :
          /\ Len(batches) < MaxExportBatches
          /\ AddData([type |-> "QABatch", ref |-> b])
    \/ MergeSimilarItems(DefaultThreshold)
    \/ \E filters \in ExportFilters : FilterItems(filters)
    \/ GetSummary
    \/ \E export_config \in ExportConfigs, remove_duplicates \in BOOLEAN,
          io_ok \in BOOLEAN :
            ProcessAndExport(export_config, remove_duplicates,
                             DefaultThreshold, io_ok)

SpecExport == Init /\ [][NextExport]_vars

(***************************************************************************)
(* Two batches of one record each, the records near-duplicates, through    *)
(* the manager.                                                            *)
(***************************************************************************)
MaxScenarioBatches == 2

ScenarioConfigs ==
    { [ formato |-> "json", incluir_metadatos |-> TRUE, filtros |-> << >>,
        ruta_salida |-> << >>, nombre_archivo |-> <<"pair">> ],
      [ formato |-> "csv", incluir_metadatos |-> FALSE, filtros |-> << >>,
        ruta_salida |-> << >>, nombre_archivo |-> <<"pair">> ] }

NextScenario ==
    \/ \E b \in ScenarioBatchIds :
          /\ Len(batches) < MaxScenarioBatches
          /\ AddData([type |-> "QABatch", ref |-> b])
    \/ \E t \in Thresholds : MergeSimilarItems(t)
    \/ \E filters \in ExportFilters : FilterItems(filters)
    \/ GetSummary
    \/ \E export_config \in ScenarioConfigs, remove_duplicates \in BOOLEAN :
            ProcessAndExport(export_config, remove_duplicates,
                             DefaultThreshold, TRUE)

SpecScenario == Init /\ [][NextScenario]_vars

(***************************************************************************)
(* The summary of collections of more than ten topics.                     *)
(***************************************************************************)
TopicBatchIds == {"T1", "T2", "T3", "T4"}

MaxTopicBatches == 3

NextTopics ==
    \/ \E b \in TopicBatchIds :
          /\ Len(batches) < MaxTopicBatches
          /\ AddData([type |-> "QABatch", ref |-> b])
    \/ GetSummary

SpecTopics == Init /\ [][NextTopics]_vars

(***************************************************************************)
(* The merge on records handed over as bare lists: records of two          *)
(* questions, one of them with an answer close to an answer of the other.  *)
(***************************************************************************)
MergeLists ==
    { << [type |-> "QAItem", ref |-> "o1"], [type |-> "QAItem", ref |-> "o3"] >>,
      << [type |-> "QAItem", ref |-> "o4"], [type |-> "QAItem", ref |-> "o8"] >>,
      << [type |-> "QAItem", ref |-> "o8"], [type |-> "QAItem", ref |-> "o1"] >>,
      << [type |-> "QAItem", ref |-> "o1"], [type |-> "QAItem", ref |-> "o8"],
         [type |-> "QAItem", ref |-> "o4"] >>,
      << [type |-> "QAItem", ref |-> "o3"] >> }

NextMerge ==
    \/ \E l \in MergeLists : AddData([type |-> "list", elems |-> l])
    \/ \E t \in Thresholds : MergeSimilarItems(t)
    \/ GetSummary

SpecMerge == Init /\ [][NextMerge]_vars

(***************************************************************************)
(* Construction of the pydantic models: QAItem(...) and                    *)
(* GenerationRequest(...).  A field is checked against its declared        *)
(* constraints first and handed to its validator afterwards; fields are    *)
(* validated in the order of their declaration, and a validator sees in    *)
(* values only the fields validated before its own.                        *)
(***************************************************************************)
Q_Short == <<"W","h","y","?">>

Q_ShortPadded == \* "   Why so?   ", 13 characters, 7 without the blanks
    <<" "," "," ","W","h","y"," ","s","o","?"," "," "," ">>

A_Short == <<"S","h","o","r","t",".">>

A_ShortPadded == \* "  Python is a tool.   ", 22 characters, 17 stripped
    <<" "," ","P","y","t","h","o","n"," ","i","s"," ","a"," ",
      "t","o","o","l","."," "," "," ">>

\* What QAItem(...) can be called with.
QAItemInputs ==
    { [ id |-> "n1", pregunta |-> q, respuesta |-> a,
        categoria |-> T_Python, nivel |-> N_Intermedio, tema |-> T_Basics,
        fuentes |-> << >>, palabras_clave |-> << >>, idioma |-> "es",
        confianza |-> c, metadatos |-> << >>, fecha_creacion |-> 8 ] :
      q \in {Q_Short, Q_ShortPadded, Q_WhatIsPython, Q_WhatIsPythonPadded},
      a \in {A_Short, A_ShortPadded, A_Lang20, A_Lang30},
      c \in {<<-1, 10>>, <<0, 1>>, <<1, 2>>, <<1, 1>>, <<3, 2>>} }

\* QAItem(**a)
NewQAItem(a) ==
    /\ op' = [name |-> "QAItem", args |-> a]
    /\ ret' = IF QAItemValid(a)
              THEN [kind |-> "return", value |-> QAItem(a)]
              ELSE [kind |-> "raise", error |-> "ValidationError"]
    /\ merge_log' = << >>
    /\ UNCHANGED <<heap, batches, unified_items, hash_order, files, ingested>>

None == [type |-> "NoneType"]

Text(v) == [type |-> "str", v |-> v]

\* bool(x) of an Optional[str]
Truthy(x) == x.type = "str" /\ x.v # ""

\* values.get(key)
Get(values, key) == IF key \in DOMAIN values THEN values[key] ELSE None

\* The fields of GenerationRequest in the order of their declaration.
RequestFields == <<"tipo", "prompt", "tema", "documento_path">>

\* The fields already validated when the validator of field runs.
ValidatedBefore(a, field) ==
    LET n == CHOOSE i \in 1..Len(RequestFields) : RequestFields[i] = field
    IN  [k \in {RequestFields[i] : i \in 1..(n - 1)} |-> a[k]]

\* validate_request_type(cls, v, values) for v = a.tipo: "ok" or the message
\* of the ValueError.
validate_request_type(a) ==
    IF /\ a.tipo = "prompt"
       /\ ~Truthy(Get(ValidatedBefore(a, "tipo"), "prompt"))
       /\ ~Truthy(Get(ValidatedBefore(a, "tipo"), "tema"))
    THEN "Para tipo 'prompt' se requiere 'prompt' o 'tema'"
    ELSE IF /\ a.tipo = "documento"
            /\ ~Truthy(Get(ValidatedBefore(a, "tipo"), "documento_path"))
    THEN "Para tipo 'documento' se requiere 'documento_path'"
    ELSE "ok"

\* What GenerationRequest(...) can be called with.
RequestInputs ==
    [ tipo : {"prompt", "documento", "url"},
      prompt : {None, Text(""), Text("Test prompt")},
      tema : {None, Text("python")},
      documento_path : {None, Text("/path/to/doc.pdf")} ]

\* GenerationRequest(**a): the Literal of tipo, then its validator.
NewGenerationRequest(a) ==
    /\ op' = [name |-> "GenerationRequest", args |-> a]
    /\ ret' = IF a.tipo \notin {"prompt", "documento"}
              THEN [kind |-> "raise", error |-> "ValidationError",
                    message |-> "unexpected value"]
              ELSE IF validate_request_type(a) # "ok"
              THEN [kind |-> "raise", error |-> "ValidationError",
                    message |-> validate_request_type(a)]
              ELSE [kind |-> "return", value |-> a]
    /\ merge_log' = << >>
    /\ UNCHANGED <<heap, batches, unified_items, hash_order, files, ingested>>

NextModels ==
    \/ \E a \in QAItemInputs : NewQAItem(a)
    \/ \E a \in RequestInputs : NewGenerationRequest(a)

SpecModels == Init /\ [][NextModels]_vars

(***************************************************************************)
(* Properties.                                                             *)
(***************************************************************************)
IsMerge == op.name = "merge_similar_items"

IsFilter == op.name = "filter_items"

\* C1: merge_similar_items leaves the collection no longer than it was, and
\* the count it returns is the length before minus the length after.
C1_MergeCountIsReduction ==
    IsMerge =>
        /\ Len(unified_items) <= Len(op.before)
        /\ ret.value = Len(op.before) - Len(unified_items)

C1_Witness ==
    /\ IsMerge
    /\ ret.value >= 2
    /\ Len(unified_items) >= 2

\* No two records at different positions are similar above the threshold, in
\* question or in answer, whichever of the two is the first argument.
NoSimilarPair(values, t) ==
    \A i, j \in 1..Len(values) :
        i # j =>
            /\ ~Gt(SimTable[values[i].pregunta, values[j].pregunta], t)
            /\ ~Gt(SimTable[values[i].respuesta, values[j].respuesta], t)

\* C2: when no two records of the collection are similar above the
\* threshold, merge_similar_items returns 0 and the collection holds the
\* same records with the same field values in the same order.
C2_NoDuplicatesNoChange ==
    (IsMerge /\ NoSimilarPair(op.before_values, op.threshold)) =>
        /\ ret.value = 0
        /\ unified_items = op.before
        /\ ValuesOf(heap, unified_items) = op.before_values

C2_Witness ==
    /\ IsMerge
    /\ op.threshold = <<4, 5>>
    /\ Len(op.before) >= 2
    /\ NoSimilarPair(op.before_values, op.threshold)
    /\ \E o \in Items : heap[o] # Constructed[o]

\* C5: a fusion leaves the existing record with exactly the union of both
\* records' sources and the union of both records' keywords, each once.
C5_SourcesAndKeywordsUnion ==
    \A n \in 1..Len(merge_log) :
        LET e == merge_log[n] IN
        /\ Range(e.after.fuentes)
               = Range(e.before.fuentes) \cup Range(e.item.fuentes)
        /\ NoDuplicates(e.after.fuentes)
        /\ Range(e.after.palabras_clave)
               = Range(e.before.palabras_clave) \cup Range(e.item.palabras_clave)
        /\ NoDuplicates(e.after.palabras_clave)

C5_Witness ==
    \E n \in 1..Len(merge_log) :
        LET e == merge_log[n] IN
        /\ e.existing # e.incoming
        /\ ~NoDuplicates(e.item.fuentes)
        /\ Range(e.item.fuentes) \ Range(e.before.fuentes) # {}
        /\ Range(e.before.fuentes) \ Range(e.item.fuentes) # {}
        /\ Range(e.item.palabras_clave) \ Range(e.before.palabras_clave) # {}
        /\ Range(e.before.palabras_clave) \ Range(e.item.palabras_clave) # {}

\* C6 as claimed: the answer is replaced exactly when the incoming one is
\* longer than 1.2 times the existing one, and an incoming answer of 25
\* characters is kept out of an existing one of 20 while one of 30 replaces it.
C6_AsClaimed ==
    \A n \in 1..Len(merge_log) :
        LET e == merge_log[n]
            li == Len(e.item.respuesta)
            le == Len(e.before.respuesta)
        IN  /\ e.after.respuesta = IF 10 * li > 12 * le THEN e.item.respuesta
                                   ELSE e.before.respuesta
            /\ (le = 20 /\ li = 25) => e.after.respuesta = e.before.respuesta
            /\ (le = 20 /\ li = 30) => e.after.respuesta = e.item.respuesta

\* C6 (amended): the answer is replaced exactly when the incoming one is
\* longer than 1.2 times the existing one; against an existing answer of 20
\* characters one of 24 is kept out, one of 25 or of 30 replaces it.
C6_LongerAnswerRule ==
    \A n \in 1..Len(merge_log) :
        LET e == merge_log[n]
            li == Len(e.item.respuesta)
            le == Len(e.before.respuesta)
        IN  /\ e.after.respuesta = IF 10 * li > 12 * le THEN e.item.respuesta
                                   ELSE e.before.respuesta
            /\ (le = 20 /\ li = 24) => e.after.respuesta = e.before.respuesta
            /\ (le = 20 /\ li \in {25, 30}) => e.after.respuesta = e.item.respuesta

C6_Witness ==
    /\ \E n \in 1..Len(merge_log) :
          /\ Len(merge_log[n].before.respuesta) = 20
          /\ Len(merge_log[n].item.respuesta) = 24
          /\ merge_log[n].after.respuesta = merge_log[n].before.respuesta
    /\ \E n \in 1..Len(merge_log) :
          /\ Len(merge_log[n].before.respuesta) = 20
          /\ Len(merge_log[n].item.respuesta) = 25
          /\ merge_log[n].after.respuesta = merge_log[n].item.respuesta

\* C7: a fusion leaves the existing record with the arithmetic mean of its
\* confidence just before and the incoming record's confidence: twice the
\* new value is their sum; 0.6 and 1.0 give 0.8.
C7_ConfidenceIsMean ==
    \A n \in 1..Len(merge_log) :
        LET a == merge_log[n].after.confianza
            x == merge_log[n].before.confianza
            y == merge_log[n].item.confianza
        IN  /\ 2 * a[1] * x[2] * y[2] = a[2] * (x[1] * y[2] + y[1] * x[2])
            /\ (x = <<3, 5>> /\ y = <<1, 1>>) => a = <<4, 5>>

C7_Witness ==
    \E n \in 1..Len(merge_log) :
        /\ merge_log[n].before.confianza = <<3, 5>>
        /\ merge_log[n].item.confianza = <<1, 1>>
        /\ merge_log[n].after.confianza = <<4, 5>>

\* C3: no Batch handed to the manager is ever changed: it keeps its items and
\* they keep the field values they had when the Batch was ingested.
C3_BatchesNeverMutated ==
    \A n \in 1..Len(ingested) :
        /\ batches[n] = ingested[n].batch
        /\ ValuesOf(heap, ingested[n].batch.items) = ingested[n].values

FrozenFields == {"id", "pregunta", "categoria", "nivel", "tema", "idioma",
                 "metadatos", "fecha_creacion"}

Frozen(r) == [f \in FrozenFields |-> r[f]]

\* C4: across ingest, merge, filter, summary and export, id, question,
\* category, level, topic, language, extra and createdAt of every record stay
\* as constructed; a record changes only in a step that merges, and only if
\* it is an existing record of that merge, which stays in the collection.
C4_OnlyMergeChangesRecords ==
    [][ \A o \in Items :
          /\ Frozen(heap'[o]) = Frozen(Constructed[o])
          /\ heap'[o] # heap[o] =>
                /\ \/ op'.name = "merge_similar_items"
                   \/ op'.name = "process_and_export" /\ op'.remove_duplicates
                /\ \E n \in 1..Len(merge_log') : merge_log'[n].existing = o
                /\ \E k \in 1..Len(unified_items') : unified_items'[k] = o
      ]_vars

C4_Witness ==
    /\ op.name = "process_and_export"
    /\ ret.kind = "return"
    /\ \E n \in 1..Len(merge_log) :
          LET e == merge_log[n] IN
          /\ e.after.respuesta # e.before.respuesta
          /\ e.after.confianza # e.before.confianza
          /\ e.item.pregunta # e.before.pregunta
          /\ heap[e.existing] # Constructed[e.existing]

\* C8: filter_items with an empty mapping returns the unified collection,
\* same records in the same order.
C8_EmptyFilterIsIdentity ==
    (IsFilter /\ DOMAIN op.filters = {}) =>
        /\ ret.value = unified_items
        /\ ValuesOf(heap, ret.value) = ValuesOf(heap, unified_items)

C8_Witness ==
    /\ IsFilter
    /\ DOMAIN op.filters = {}
    /\ Len(unified_items) >= 2
    /\ ret.value = unified_items
    /\ \E o \in Items : heap[o] # Constructed[o]

EqualIgnoringCase(a, b) ==
    /\ Len(a) = Len(b)
    /\ \A i \in 1..Len(a) : LowerChar(a[i]) = LowerChar(b[i])

OccursIgnoringCase(text, part) ==
    \E k \in 0..(Len(text) - Len(part)) :
        \A i \in 1..Len(part) : LowerChar(text[k + i]) = LowerChar(part[i])

\* a text constraint is present and not empty
Constrains(filters, key) == key \in DOMAIN filters /\ Len(filters[key]) > 0

\* The record meets every constraint the mapping carries.
Satisfies(r, filters) ==
    /\ Constrains(filters, "categoria") =>
           EqualIgnoringCase(r.categoria, filters.categoria)
    /\ Constrains(filters, "nivel") =>
           EqualIgnoringCase(r.nivel, filters.nivel)
    /\ Constrains(filters, "tema") =>
           OccursIgnoringCase(r.tema, filters.tema)
    /\ "confianza_minima" \in DOMAIN filters =>
           r.confianza[1] * filters.confianza_minima[2]
               >= filters.confianza_minima[1] * r.confianza[2]

\* C9: filter_items returns exactly the records that meet all the category,
\* level, topic and minimum-confidence constraints present, in their
\* original relative order.
C9_FilterIsConjunction ==
    IsFilter =>
        ret.value = SelectSeq(unified_items,
                        LAMBDA o : Satisfies(heap[o], op.filters))

C9_Witness ==
    /\ IsFilter
    /\ \A key \in {"categoria", "nivel", "tema"} : Constrains(op.filters, key)
    /\ "confianza_minima" \in DOMAIN op.filters
    /\ ret.value # << >>
    /\ Len(ret.value) < Len(unified_items)

\* C10: with a non-empty keywords set in the mapping, filter_items returns
\* only records whose question or answer contains one of the terms,
\* whatever the case of the letters.
C10_KeywordsFilter ==
    (IsFilter /\ "palabras_clave" \in DOMAIN op.filters
              /\ op.filters.palabras_clave # << >>) =>
        \A k \in 1..Len(ret.value) :
            \E n \in 1..Len(op.filters.palabras_clave) :
                \/ OccursIgnoringCase(heap[ret.value[k]].pregunta,
                                      op.filters.palabras_clave[n])
                \/ OccursIgnoringCase(heap[ret.value[k]].respuesta,
                                      op.filters.palabras_clave[n])

IsSummary == op.name = "get_summary"

IsStats == op.name = "get_stats"

\* d counts, under each value of field the records carry and under no other
\* key, the records carrying it.
IsDistribution(d, values, field) ==
    /\ \A i, j \in 1..Len(d) : d[i][1] = d[j][1] => i = j
    /\ {d[i][1] : i \in 1..Len(d)} =
          {values[i][field] : i \in 1..Len(values)}
    /\ \A i \in 1..Len(d) :
          d[i][2] = Cardinality({n \in 1..Len(values) :
                                    values[n][field] = d[i][1]})

RECURSIVE CommonDenominator(_, _)
CommonDenominator(values, n) ==
    IF n = 0 THEN 1
    ELSE LET D == CommonDenominator(values, n - 1)
             d == values[n].confianza[2]
         IN  (D * d) \div GCD(D, d)

\* The confidences of the first n records, summed in units of 1/D.
RECURSIVE ScaledSum(_, _, _)
ScaledSum(values, n, D) ==
    IF n = 0 THEN 0
    ELSE ScaledSum(values, n - 1, D)
         + values[n].confianza[1] * (D \div values[n].confianza[2])

\* m is the arithmetic mean of the confidences of values.
IsMeanConfidence(m, values) ==
    m[1] * Len(values) * CommonDenominator(values, Len(values)) =
        m[2] * ScaledSum(values, Len(values),
                         CommonDenominator(values, Len(values)))

\* C11: over a non-empty collection get_statistics and QABatch.get_stats
\* report the number of records as the total, for each category and each
\* level the number of records carrying it, and the arithmetic mean of the
\* confidences.
C11_StatisticsCount ==
    /\ (IsSummary /\ unified_items # << >>) =>
          /\ ret.value.total_items = Len(unified_items)
          /\ IsDistribution(ret.value.distribucion_categorias,
                            ValuesOf(heap, unified_items), "categoria")
          /\ IsDistribution(ret.value.distribucion_niveles,
                            ValuesOf(heap, unified_items), "nivel")
          /\ IsMeanConfidence(ret.value.confianza_promedio,
                              ValuesOf(heap, unified_items))
    /\ IsStats =>
          /\ ret.value.total = Len(batches[op.batch].items)
          /\ IsDistribution(ret.value.categorias,
                            ValuesOf(heap, batches[op.batch].items),
                            "categoria")
          /\ IsDistribution(ret.value.niveles,
                            ValuesOf(heap, batches[op.batch].items), "nivel")
          /\ IsMeanConfidence(ret.value.confianza_promedio,
                              ValuesOf(heap, batches[op.batch].items))

\* A summary of three records of categories [python, python, general].
C11_Witness ==
    /\ IsSummary
    /\ [i \in 1..Len(unified_items) |-> heap[unified_items[i]].categoria] =
          <<lower(T_Python), lower(T_Python), T_General>>
    /\ ret.value.distribucion_categorias =
          << <<lower(T_Python), 2>>, <<T_General, 1>> >>
    /\ ret.value.confianza_promedio = <<4, 5>>

\* C12: on an empty collection get_summary does not fail, and its result
\* holds a total of 0 and a mean confidence entry equal to 0.
C12_EmptySummaryHasMean ==
    (IsSummary /\ unified_items = << >>) =>
        /\ ret.kind = "return"
        /\ ret.value.total = 0
        /\ "confianza_promedio" \in DOMAIN ret.value
        /\ ret.value.confianza_promedio = <<0, 1>>

IsAddData == op.name = "add_data"

AllOfType(elems, type) == \A i \in 1..Len(elems) : elems[i].type = type

\* The records of the batches bs, batch after batch.
RECURSIVE AllItems(_)
AllItems(bs) ==
    IF bs = << >> THEN << >>
    ELSE AllItems(SubSeq(bs, 1, Len(bs) - 1)) \o bs[Len(bs)].items

\* C13: add_data takes one Batch, a sequence of Batches or a bare sequence of
\* Records; the collection afterwards is the previous one followed by the
\* ingested records in their order, the batch list grows by the ingested
\* Batches, and a sequence of Records is recorded as one synthetic Batch of
\* origin manual.  (The empty list is ingested as a sequence of no Batches.)
C13_IngestAppends ==
    [][ IsAddData' =>
          /\ op'.data.type = "QABatch" =>
                /\ ret'.kind = "none"
                /\ batches' = Append(batches, BatchPool[op'.data.ref])
                /\ unified_items' =
                      unified_items \o BatchPool[op'.data.ref].items
          /\ (op'.data.type = "list" /\ AllOfType(op'.data.elems, "QABatch")) =>
                /\ ret'.kind = "none"
                /\ batches' = batches \o [i \in 1..Len(op'.data.elems) |->
                                            BatchPool[op'.data.elems[i].ref]]
                /\ unified_items' =
                      unified_items \o
                      AllItems([i \in 1..Len(op'.data.elems) |->
                                   BatchPool[op'.data.elems[i].ref]])
          /\ (/\ op'.data.type = "list"
              /\ op'.data.elems # << >>
              /\ AllOfType(op'.data.elems, "QAItem")) =>
                /\ ret'.kind = "none"
                /\ Len(batches') = Len(batches) + 1
                /\ SubSeq(batches', 1, Len(batches)) = batches
                /\ batches'[Len(batches')].origen = "manual"
                /\ batches'[Len(batches')].items = Refs(op'.data.elems)
                /\ unified_items' = unified_items \o Refs(op'.data.elems)
      ]_vars

\* Records [o3, o1] ingested as a bare list after two batches.
C13_Witness ==
    /\ IsAddData
    /\ op.data.type = "list"
    /\ AllOfType(op.data.elems, "QAItem")
    /\ Len(batches) = 3
    /\ batches[3].origen = "manual"
    /\ Len(unified_items) > Len(batches[3].items) + 1
    /\ SubSeq(unified_items, Len(unified_items) - 1, Len(unified_items)) =
          <<"o3", "o1">>

\* Neither a Batch, nor a sequence of Batches only, nor one of Records only.
WrongShape(data) ==
    /\ data.type # "QABatch"
    /\ ~(/\ data.type = "list"
         /\ \/ AllOfType(data.elems, "QABatch")
            \/ AllOfType(data.elems, "QAItem"))

\* C14: add_data given input of the wrong shape fails with an error and
\* leaves the collection and the batch list as they were.
C14_WrongShapeRejected ==
    [][ (IsAddData' /\ WrongShape(op'.data)) =>
          /\ ret'.kind = "raise"
          /\ unified_items' = unified_items
          /\ batches' = batches
      ]_vars

IsExport == op.name = "process_and_export"

\* The rows a written file holds.
RowsOf(content) ==
    IF content.format = "csv" THEN content.rows ELSE content.qa_items

\* The call wrote its file: it returned, and the writer had rows or the
\* format was JSON.
Wrote(call, returned) ==
    /\ returned.kind = "return"
    /\ call.config.formato = "json" \/ call.exported # << >>

\* C15: process_and_export with remove_duplicates merges the full collection
\* with the given threshold, then filters the merged collection with the
\* filters of the request, then exports exactly the filtered records in
\* collection order; without remove_duplicates it runs no merge and leaves
\* the collection as it was.
C15_MergeThenFilterThenExport ==
    [][ IsExport' =>
          /\ op'.remove_duplicates =>
                /\ unified_items' =
                      merge_similar_items(heap, unified_items, op'.threshold,
                                          hash_order).merged_items
                /\ heap' =
                      merge_similar_items(heap, unified_items, op'.threshold,
                                          hash_order).heap
          /\ ~op'.remove_duplicates =>
                /\ unified_items' = unified_items
                /\ heap' = heap
          /\ op'.exported =
                SelectSeq(unified_items',
                          LAMBDA o : Satisfies(heap'[o], op'.config.filtros))
          /\ Wrote(op', ret') =>
                /\ ret'.value \in DOMAIN files'
                /\ Len(RowsOf(files'[ret'.value])) = Len(op'.exported)
                /\ \A i \in 1..Len(op'.exported) :
                      /\ RowsOf(files'[ret'.value])[i].id =
                            heap'[op'.exported[i]].id
                      /\ RowsOf(files'[ret'.value])[i].respuesta =
                            heap'[op'.exported[i]].respuesta
                      /\ RowsOf(files'[ret'.value])[i].confianza =
                            heap'[op'.exported[i]].confianza
      ]_vars

\* A call that merged, filtered some records out and wrote the rest.
C15_Witness ==
    /\ IsExport
    /\ op.remove_duplicates
    /\ merge_log # << >>
    /\ Wrote(op, ret)
    /\ op.exported # << >>
    /\ Len(op.exported) < Len(unified_items)
    /\ Len(RowsOf(files[ret.value])) = Len(op.exported)

\* C16: an export fails with the unsupported-format error exactly when the
\* requested format is not in supported_formats; a format the exporter
\* declares as supported is never rejected as unsupported.
C16_UnsupportedIffNotDeclared ==
    IsExport =>
        ((ret.kind = "raise" /\ ret.error = "ValueError")
            <=> op.config.formato \notin Range(supported_formats))

\* C17: exporting zero matching records raises no error; for CSV no file is
\* written, for JSON a file is written whose qa_items is empty and whose
\* total_items is 0.  (An error of the file system is not one of the export.)
C17_EmptyExport ==
    [][ (/\ IsExport'
         /\ op'.exported = << >>
         /\ op'.config.formato \in {"csv", "json"}
         /\ ~(ret'.kind = "raise" /\ ret'.error = "OSError")) =>
          /\ ret'.kind = "return"
          /\ op'.config.formato = "csv" => files' = files
          /\ op'.config.formato = "json" =>
                /\ ret'.value \in DOMAIN files'
                /\ files'[ret'.value].qa_items = << >>
                /\ files'[ret'.value].metadata.total_items = 0
      ]_vars

\* A CSV export of a collection none of whose records matched: the call
\* returned its path and there is no file.
C17_Witness ==
    /\ IsExport
    /\ op.config.formato = "csv"
    /\ unified_items # << >>
    /\ op.exported = << >>
    /\ ret.kind = "return"
    /\ ret.value \notin DOMAIN files

FixedFields == {"id", "pregunta", "respuesta", "categoria", "nivel", "tema",
                "idioma", "confianza", "fecha_creacion", "fuentes",
                "palabras_clave"}

\* The keys the metadatos mappings of the records use.
MetaKeys == UNION {DOMAIN Constructed[o].metadatos : o \in Items}

\* C18: the exported rows are one per record, in order; every row has the
\* eleven fixed fields, and a column meta_<k> exactly when include_metadata
\* is true and k is a key of the metadatos of the row's record.
C18_RowsAndMetaColumns ==
    (IsExport /\ Wrote(op, ret)) =>
        /\ Len(RowsOf(files[ret.value])) = Len(op.exported)
        /\ \A i \in 1..Len(op.exported) :
              /\ RowsOf(files[ret.value])[i].id = heap[op.exported[i]].id
              /\ FixedFields \subseteq DOMAIN RowsOf(files[ret.value])[i]
              /\ DOMAIN RowsOf(files[ret.value])[i] \ FixedFields
                    \subseteq {"meta_" \o k : k \in MetaKeys}
              /\ \A k \in MetaKeys :
                    ("meta_" \o k) \in DOMAIN RowsOf(files[ret.value])[i]
                    <=> /\ op.config.incluir_metadatos
                        /\ k \in DOMAIN heap[op.exported[i]].metadatos

\* An export with metadata of a record that has a metadatos key and of one
\* that has none.
C18_Witness ==
    /\ IsExport
    /\ Wrote(op, ret)
    /\ op.config.incluir_metadatos
    /\ \E i, j \in 1..Len(op.exported) :
          /\ "meta_provider" \in DOMAIN RowsOf(files[ret.value])[i]
          /\ DOMAIN RowsOf(files[ret.value])[j] = FixedFields

IsCsvExport ==
    /\ IsExport
    /\ op.config.formato = "csv"
    /\ ret.kind = "return"
    /\ op.exported # << >>

\* C19: for a non-empty record list the columns of the CSV file are exactly
\* the keys of its rows, each once, in ascending lexicographic order; the
\* first line is the header, and every row's line holds the row's value
\* under each column, the empty value where the row lacks the column.
C19_CsvColumns ==
    IsCsvExport =>
        /\ Range(files[ret.value].columns) =
              UNION {DOMAIN files[ret.value].rows[i] :
                        i \in 1..Len(op.exported)}
        /\ \A c, c2 \in 1..Len(files[ret.value].columns) :
              c < c2 => StrLess(Spell[files[ret.value].columns[c]],
                                Spell[files[ret.value].columns[c2]])
        /\ Len(files[ret.value].lines) = Len(op.exported) + 1
        /\ files[ret.value].lines[1] = files[ret.value].columns
        /\ \A i \in 1..Len(op.exported) :
              \A c \in 1..Len(files[ret.value].columns) :
                  files[ret.value].lines[i + 1][c] =
                      IF files[ret.value].columns[c]
                            \in DOMAIN files[ret.value].rows[i]
                      THEN files[ret.value].rows[i]
                               [files[ret.value].columns[c]]
                      ELSE ""

\* A CSV file with the column meta_provider, written for a record that has
\* the key and for one that has not, whose line is empty there.
C19_Witness ==
    /\ IsCsvExport
    /\ \E c \in 1..Len(files[ret.value].columns) :
          /\ files[ret.value].columns[c] = "meta_provider"
          /\ \E i, j \in 1..Len(op.exported) :
                /\ i < j
                /\ files[ret.value].lines[i + 1][c] = ""
                /\ files[ret.value].lines[j + 1][c] = "openai"

\* Batch A then batch B were ingested, their records as constructed, and
\* process_and_export with remove_duplicates and threshold 0.8 wrote JSON.
PairExported ==
    /\ IsExport
    /\ op.remove_duplicates
    /\ op.threshold = <<4, 5>>
    /\ op.config.formato = "json"
    /\ op.before = <<"o6", "o7">>
    /\ op.before_values = <<Constructed["o6"], Constructed["o7"]>>
    /\ [i \in 1..Len(batches) |-> batches[i].id] = <<"A", "B">>
    /\ ret.kind = "return"

\* C20 as claimed: the one exported record has confidence 0.825 and the
\* longer answer of B, and its sources contain the identifiers of both
\* batches.
C20_AsClaimed ==
    PairExported =>
        /\ Len(files[ret.value].qa_items) = 1
        /\ files[ret.value].qa_items[1].confianza = <<33, 40>>
        /\ files[ret.value].qa_items[1].respuesta = A_Lang26
        /\ {batches[i].id : i \in 1..Len(batches)}
              \subseteq Range(files[ret.value].qa_items[1].fuentes)

\* C20: after ingesting batch A with one record (confidence 0.95) and batch
\* B with one record of the same question, an answer 30% longer and
\* confidence 0.70, process_and_export to JSON with remove_duplicates and
\* threshold 0.8 exports exactly one record, of confidence 0.825, with the
\* longer answer of B, whose sources are those of the two records.
C20_PairMergedAndExported ==
    PairExported =>
        /\ Len(files[ret.value].qa_items) = 1
        /\ files[ret.value].qa_items[1].confianza = <<33, 40>>
        /\ files[ret.value].qa_items[1].respuesta = A_Lang26
        /\ Range(files[ret.value].qa_items[1].fuentes) \ {"|"} =
              Range(Constructed["o6"].fuentes)
                  \cup Range(Constructed["o7"].fuentes)

C20_Witness ==
    /\ PairExported
    /\ Len(A_Lang26) * 10 = Len(A_Lang20) * 13
    /\ Constructed["o6"].confianza = <<19, 20>>
    /\ Constructed["o7"].confianza = <<7, 10>>
    /\ Len(files[ret.value].qa_items) = 1
    /\ files[ret.value].qa_items[1].id = "o6"

IsNewQAItem == op.name = "QAItem"

InUnitInterval(c) == Geq(c, <<0, 1>>) /\ Geq(<<1, 1>>, c)

\* C21: construction of a record fails whenever the question has fewer than
\* 10 characters, the answer fewer than 20 or the confidence lies outside
\* [0, 1]; so every constructed record stores a question of at least 10
\* characters, an answer of at least 20 and a confidence within [0, 1].
C21_ConstructedRecordValid ==
    IsNewQAItem =>
        /\ (\/ Len(op.args.pregunta) < 10
            \/ Len(op.args.respuesta) < 20
            \/ ~InUnitInterval(op.args.confianza)) => ret.kind = "raise"
        /\ ret.kind = "return" =>
              /\ Len(ret.value.pregunta) >= 10
              /\ Len(ret.value.respuesta) >= 20
              /\ InUnitInterval(ret.value.confianza)

IsNewRequest == op.name = "GenerationRequest"

\* C23: GenerationRequest is constructed for tipo "prompt" whenever a prompt
\* or a tema is supplied and for tipo "documento" whenever a documento_path
\* is, and fails with the matching validation error exactly when they are
\* absent.
C23_RequestCompanions ==
    IsNewRequest =>
        /\ op.args.tipo = "prompt" =>
              IF Truthy(op.args.prompt) \/ Truthy(op.args.tema)
              THEN ret.kind = "return"
              ELSE /\ ret.kind = "raise"
                   /\ ret.message =
                         "Para tipo 'prompt' se requiere 'prompt' o 'tema'"
        /\ op.args.tipo = "documento" =>
              IF Truthy(op.args.documento_path)
              THEN ret.kind = "return"
              ELSE /\ ret.kind = "raise"
                   /\ ret.message =
                         "Para tipo 'documento' se requiere 'documento_path'"

\* C22: in every reachable state the sources and the keywords of every
\* record of the unified collection are free of duplicates.
C22_SourcesAndKeywordsAreSets ==
    \A i \in 1..Len(unified_items) :
        /\ NoDuplicates(heap[unified_items[i]].fuentes)
        /\ NoDuplicates(heap[unified_items[i]].palabras_clave)

\* The entries of the log for the record at position k of the input.
Fusions(k) == {n \in 1..Len(merge_log) : merge_log[n].position = k}

\* The positions of the input whose record went to the output, in order.
KeptPositions ==
    SelectSeq([j \in 1..Len(op.before) |-> j], LAMBDA j : Fusions(j) = {})

\* The fusions into object o before the loop reached position k.
FusionsInto(o, k) ==
    {n \in 1..Len(merge_log) :
        merge_log[n].existing = o /\ merge_log[n].position < k}

\* The field values of object o when the loop reaches position k: those the
\* last fusion into it left, or those it had when the merge began.
ValueAt(o, k) ==
    IF FusionsInto(o, k) = {}
    THEN op.before_values[CHOOSE i \in 1..Len(op.before) : op.before[i] = o]
    ELSE merge_log[CHOOSE n \in FusionsInto(o, k) :
                      \A n2 \in FusionsInto(o, k) : n2 <= n].after

\* The record at position k is above the threshold against the one at
\* position j, on the values both have when the loop reaches k.
MatchesAt(k, j) ==
    \/ Gt(SimTable[ValueAt(op.before[k], k).pregunta,
                   ValueAt(op.before[j], k).pregunta], op.threshold)
    \/ Gt(SimTable[ValueAt(op.before[k], k).respuesta,
                   ValueAt(op.before[j], k).respuesta], op.threshold)

\* The earlier positions that went to the output and match position k.
Candidates(k) ==
    {j \in 1..(k - 1) : Fusions(j) = {} /\ MatchesAt(k, j)}

\* C24: the merge compares each record only with the records already in the
\* output, in output order; the record is fused into the first of them whose
\* question or whose current answer is similar above the threshold, into
\* that one only, and it goes to the output when none is.
C24_FirstMatchInOutput ==
    IsMerge =>
        /\ unified_items =
              [i \in 1..Len(KeptPositions) |-> op.before[KeptPositions[i]]]
        /\ \A k \in 1..Len(op.before) :
              /\ Cardinality(Fusions(k)) <= 1
              /\ Candidates(k) = {} => Fusions(k) = {}
              /\ Candidates(k) # {} =>
                    \E n \in Fusions(k) :
                        /\ merge_log[n].incoming = op.before[k]
                        /\ merge_log[n].existing =
                              op.before[CHOOSE j \in Candidates(k) :
                                           \A j2 \in Candidates(k) : j <= j2]
                        /\ merge_log[n].before =
                              ValueAt(merge_log[n].existing, k)
                        /\ merge_log[n].item = ValueAt(op.before[k], k)

\* o8 matches the first output record only by the answer that record took
\* from an earlier fusion, and the second output record by its question: it
\* is fused into the first.
C24_Witness ==
    /\ IsMerge
    /\ op.threshold = <<4, 5>>
    /\ \E k \in 1..Len(op.before) :
          /\ Cardinality(Candidates(k)) >= 2
          /\ \E n \in Fusions(k) :
                /\ merge_log[n].before.pregunta # merge_log[n].item.pregunta
                /\ merge_log[n].before.respuesta
                      # Constructed[merge_log[n].existing].respuesta
                /\ ~Gt(SimTable[merge_log[n].item.respuesta,
                                Constructed[merge_log[n].existing].respuesta],
                       op.threshold)
    /\ \E k \in 2..Len(op.before) : Fusions(k) = {}

\* The topics the records of the collection carry.
TopicsOf(values) ==
    {values[i].tema : i \in 1..Len(values)} \ {<< >>}

\* The number of records of topic x, and the position of the first of them.
TopicCount(values, x) ==
    Cardinality({i \in 1..Len(values) : values[i].tema = x})

FirstSeen(values, x) ==
    CHOOSE i \in 1..Len(values) :
        /\ values[i].tema = x
        /\ \A j \in 1..(i - 1) : values[j].tema # x

\* Topic x ranks before topic y: more records, or as many and seen first.
RanksBefore(values, x, y) ==
    \/ TopicCount(values, x) > TopicCount(values, y)
    \/ /\ TopicCount(values, x) = TopicCount(values, y)
       /\ FirstSeen(values, x) < FirstSeen(values, y)

\* C25: the topic distribution of get_statistics holds at most 10 topics,
\* each with its number of records; they are the topics of the highest
\* counts, and topics of equal counts are ranked and cut off in the order
\* in which the collection first shows them.
C25_TopTopics ==
    (IsSummary /\ unified_items # << >>) =>
        LET values == ValuesOf(heap, unified_items)
            d == ret.value.distribucion_temas
            shown == {d[i][1] : i \in 1..Len(d)}
        IN  /\ Len(d) = Min(TopTemas, Cardinality(TopicsOf(values)))
            /\ shown \subseteq TopicsOf(values)
            /\ \A i \in 1..Len(d) : d[i][2] = TopicCount(values, d[i][1])
            /\ \A i, j \in 1..Len(d) :
                  i < j => RanksBefore(values, d[i][1], d[j][1])
            /\ \A x \in shown, y \in TopicsOf(values) \ shown :
                  RanksBefore(values, x, y)

\* A summary of twelve topics: ten are shown, and one of the two left out has
\* as many records as the last one shown.
C25_Witness ==
    /\ IsSummary
    /\ unified_items # << >>
    /\ Cardinality(TopicsOf(ValuesOf(heap, unified_items))) = 12
    /\ Len(ret.value.distribucion_temas) = 10
    /\ ret.value.distribucion_temas[1][2] = 2
    /\ ret.value.distribucion_temas[10][2] = 1
    /\ \E i \in 1..Len(unified_items) :
          /\ heap[unified_items[i]].tema # << >>
          /\ \A n \in 1..10 :
                ret.value.distribucion_temas[n][1]
                    # heap[unified_items[i]].tema

\* The confidences that went into record o in the merge just done: its own
\* at the start and that of every record fused into it.
ConfidencesInto(o) ==
    {op.before_values[i].confianza :
        i \in {i \in 1..Len(op.before) : op.before[i] = o}}
    \cup {merge_log[n].item.confianza :
            n \in {n \in 1..Len(merge_log) : merge_log[n].existing = o}}

\* C26: after construction, ingest and any number of merges every record of
\* the collection has a confidence within [0, 1], and the confidence of a
\* record that survived a merge lies between the least and the greatest of
\* the confidences of the records merged into it.
C26_ConfidenceBounded ==
    /\ \A i \in 1..Len(unified_items) :
          InUnitInterval(heap[unified_items[i]].confianza)
    /\ IsMerge =>
          \A i \in 1..Len(unified_items) :
              \E lo, hi \in ConfidencesInto(unified_items[i]) :
                  /\ Geq(heap[unified_items[i]].confianza, lo)
                  /\ Geq(hi, heap[unified_items[i]].confianza)

\* A record that took in two records of other confidences and ends strictly
\* between the least and the greatest of the three.
C26_Witness ==
    /\ IsMerge
    /\ \E i \in 1..Len(unified_items) :
          /\ Cardinality({n \in 1..Len(merge_log) :
                merge_log[n].existing = unified_items[i]}) >= 2
          /\ Cardinality(ConfidencesInto(unified_items[i])) >= 3
          /\ \E lo, hi \in ConfidencesInto(unified_items[i]) :
                /\ Gt(heap[unified_items[i]].confianza, lo)
                /\ Gt(hi, heap[unified_items[i]].confianza)

IsFailedExport == IsExport /\ ret.kind = "raise"

\* C28 as claimed: a process_and_export that fails, by an unsupported format
\* or by a failed write, leaves the unified collection and the batch list
\* as they were before the call, also with remove_duplicates.
C28_FailedExportNoEffect ==
    [][ IsFailedExport' =>
          /\ batches' = batches
          /\ unified_items' = unified_items
          /\ ValuesOf(heap', unified_items') = ValuesOf(heap, unified_items)
      ]_vars

\* C28: a process_and_export that fails leaves the batch list and the files
\* as they were; it leaves the unified collection as it was when
\* remove_duplicates is false, and as the merge it ran before the export
\* left it when remove_duplicates is true.
C28_FailedExportKeepsMerge ==
    [][ IsFailedExport' =>
          /\ batches' = batches
          /\ files' = files
          /\ ~op'.remove_duplicates =>
                /\ unified_items' = unified_items
                /\ heap' = heap
          /\ op'.remove_duplicates =>
                /\ unified_items' =
                      merge_similar_items(heap, unified_items, op'.threshold,
                                          hash_order).merged_items
                /\ heap' =
                      merge_similar_items(heap, unified_items, op'.threshold,
                                          hash_order).heap
      ]_vars

\* A failed call with remove_duplicates after which the collection is
\* shorter than before the call.
C28_Witness ==
    /\ IsFailedExport
    /\ op.remove_duplicates
    /\ merge_log # << >>
    /\ Len(unified_items) < Len(op.before)

\* The file at path holds one row per record of items, in order, with the
\* record's id, question and answer.
HoldsExportOf(fs, path, h, items) ==
    /\ path \in DOMAIN fs
    /\ Len(RowsOf(fs[path])) = Len(items)
    /\ \A i \in 1..Len(items) :
          /\ RowsOf(fs[path])[i].id = h[items[i]].id
          /\ RowsOf(fs[path])[i].pregunta = h[items[i]].pregunta
          /\ RowsOf(fs[path])[i].respuesta = h[items[i]].respuesta

\* C29 as claimed: whenever process_and_export returns a path, a file is at
\* that path and holds the export of the records handed to the exporter.
C29_ReturnedPathHasFile ==
    (IsExport /\ ret.kind = "return") =>
        HoldsExportOf(files, ret.value, heap, op.exported)

\* C29: whenever process_and_export returns a path, a file is at that path
\* and holds the export of the records handed to the exporter, except for a
\* CSV export of zero records, which returns the path and writes nothing.
C29_ReturnedPathHasFileUnlessEmptyCsv ==
    [][ (IsExport' /\ ret'.kind = "return") =>
          IF op'.config.formato = "csv" /\ op'.exported = << >>
          THEN files' = files
          ELSE HoldsExportOf(files', ret'.value, heap', op'.exported)
      ]_vars

\* A CSV export of two or more records that returned the path of its file.
C29_Witness ==
    /\ IsExport
    /\ ret.kind = "return"
    /\ op.config.formato = "csv"
    /\ Len(op.exported) >= 2
    /\ HoldsExportOf(files, ret.value, heap, op.exported)

\* The sum of the counts of a frequency table.
RECURSIVE SumCounts(_)
SumCounts(d) == IF d = << >> THEN 0 ELSE Head(d)[2] + SumCounts(Tail(d))

\* The number of records the ingested batches hold.
RECURSIVE BatchRecords(_)
BatchRecords(bs) ==
    IF bs = << >> THEN 0 ELSE Len(Head(bs).items) + BatchRecords(Tail(bs))

HasTables == IsSummary /\ "total_items" \in DOMAIN ret.value

\* C30 as claimed: in a summary the per-origin counts sum to the total item
\* count, and so do the category, the level and the language counts.
C30_SummarySelfConsistent ==
    HasTables =>
        /\ SumCounts(ret.value.distribucion_origenes) = ret.value.total_items
        /\ SumCounts(ret.value.distribucion_categorias) = ret.value.total_items
        /\ SumCounts(ret.value.distribucion_niveles) = ret.value.total_items
        /\ SumCounts(ret.value.distribucion_idiomas) = ret.value.total_items

\* C30: in a summary the category, the level and the language counts each
\* sum to the total item count; the per-origin counts sum to the number of
\* records of the ingested batches, which is not below the total item count.
C30_SummarySums ==
    HasTables =>
        /\ SumCounts(ret.value.distribucion_categorias) = ret.value.total_items
        /\ SumCounts(ret.value.distribucion_niveles) = ret.value.total_items
        /\ SumCounts(ret.value.distribucion_idiomas) = ret.value.total_items
        /\ SumCounts(ret.value.distribucion_origenes) = BatchRecords(batches)
        /\ BatchRecords(batches) >= ret.value.total_items

\* A summary after a merge: two origins, more records under the origins
\* than in the collection.
C30_Witness ==
    /\ HasTables
    /\ Len(ret.value.distribucion_origenes) >= 2
    /\ Len(ret.value.distribucion_categorias) >= 2
    /\ SumCounts(ret.value.distribucion_origenes) > ret.value.total_items

====
